---- MODULE Spec2Model ----
(***************************************************************************)
(* The PPTX-to-video job pipeline of Hema-AG/PCAI:                         *)
(*   routers/tts.py            process_pptx, process_pptx_background,      *)
(*                             get_job_status, download_video, the job     *)
(*                             status files                                *)
(*   services/video_generator.py   VideoGenerator (one module-level        *)
(*                             instance, used by every job)                *)
(*                                                                         *)
(* Scheduling.  Every handler and the background task are `async def`, so  *)
(* they all run on the one asyncio event loop of the process started by    *)
(* main.py.  A coroutine keeps the loop until it awaits something that     *)
(* really suspends (the LLM request, speech synthesis, the ffprobe and     *)
(* ffmpeg subprocesses).  `cpu` is the task that holds the loop (0: the    *)
(* loop is free); write_videofile, os.rename, the status-file writes and   *)
(* the clean-up are plain synchronous calls and keep it.                   *)
(*                                                                         *)
(* Environment.  Names that routers/tts.py uses without binding them       *)
(* (time, tempfile, the three service instances, MAX_FILE_SIZE) are taken  *)
(* to be bound at module level as their names say; writes of the job       *)
(* status files and os.makedirs succeed.                                   *)
(***************************************************************************)
EXTENDS Integers, Sequences, FiniteSets, TLC

(* ------------------------------ bounds -------------------------------- *)

\* Number of requests (process_pptx submissions, or create_video calls).
MaxJobs == 2

\* time.time() takes the values 1..MaxClock (whole seconds).
MaxClock == 2

Tasks == 1..MaxJobs

\* Job ids a client may ask about: 0 is never assigned.
PollIds == 0..MaxClock

\* create_video is planned for every slide count 0..MaxSlides.
MaxSlides == 17

\* Durations (seconds) ffprobe may report for a synthesized audio file.
ProbeDurations == {4}

(* --------------------------- program constants ------------------------ *)

\* _get_audio_duration's fallback and the duration of a slide without audio.
DefaultDuration == 3

(* ------------------------------- inputs ------------------------------- *)

\* One slide as create_video sees it: text = the narration is not blank,
\* img = the image path exists on disk.
Slide(text, img) == [text |-> text, img |-> img]

Spoken == Slide(TRUE, TRUE)
Silent == Slide(FALSE, TRUE)
NoImage == Slide(FALSE, FALSE)

\* Decks a presentation can yield through the pipeline: extract_slide_images
\* writes one image per slide, so every image exists.
PipelineDecks ==
    { <<Spoken>>,
      <<Silent, Silent, Silent, Silent, Silent, Silent>> }

\* Arguments of a direct create_video call: image paths may be missing.
CallDecks ==
    { <<Spoken>>,
      <<NoImage>>,
      <<Silent, Silent, Silent, Silent, Silent, Silent>>,
      <<NoImage, NoImage, NoImage, NoImage, NoImage, Silent>>,
      <<Silent, Silent, Silent, Silent, Silent, Spoken>>,
      <<Silent, NoImage, Spoken>> }

\* Arguments of every length 0..MaxSlides: blank narration and image paths
\* that do not exist, so that a call only cuts its arguments into chunks.
PlanDecks == { [n \in 1..N |-> NoImage] : N \in 0..MaxSlides }

(* -------------------------------- paths ------------------------------- *)

\* os.path.join(tempfile.gettempdir(), f"chunk_{chunk_idx}.mp4")
ChunkPath(chunk_idx) == <<"chunk", chunk_idx, 0>>

\* os.path.join(temp_dir, f"chunk{chunk_idx}_slide{i}_audio.mp3")
AudioPath(chunk_idx, i) == <<"audio", chunk_idx, i>>

\* os.path.join(tempfile.gettempdir(), "concat_list.txt")
ConcatFile == <<"concat", 0, 0>>

\* os.path.join(output_dir, f"{job_id}.mp4")
OutputPath(job_id) == <<"out", job_id, 0>>

\* The "" that _generate_audio_for_slide returns for "no audio".
NoAudio == <<"", 0, 0>>

\* The None that _process_chunk returns from its except branch.
NonePath == <<"None", 0, 0>>

(* ------------------------------- files -------------------------------- *)

\* A file's content: who wrote it (owner = the task), the clips of a video
\* (or the one sound of an audio file), the lines of a manifest.
File(owner, clips, list) == [owner |-> owner, clips |-> clips, list |-> list]

\* os.path.exists
Exists(dsk, p) == p \in DOMAIN dsk

\* open(p, "w") ... write / write_videofile(p): create or overwrite
WriteFile(dsk, p, f) == (p :> f) @@ dsk

\* os.remove / os.unlink
RemoveFile(dsk, p) == [q \in DOMAIN dsk \ {p} |-> dsk[q]]

\* os.rename(src, dst): dst is replaced
RenameFile(dsk, src, dst) == (dst :> dsk[src]) @@ RemoveFile(dsk, src)

(* --------------------------- job status store ------------------------- *)

\* What open(status_file, "w") leaves before json.dump has written.
EmptyFile == [status |-> "<empty file>"]

\* What a failing json.load makes of a read.
ReadRaised == [status |-> "<raised>"]

\* Line 18: open(status_file, "w") creates or truncates the file.
OpenStatusFile(st, job_id) == (job_id :> EmptyFile) @@ st

\* Line 19: json.dump(status, f), and the file is closed.
DumpStatus(st, job_id, status) == (job_id :> status) @@ st

\* save_job_status, from its call to its return.
save_job_status(st, job_id, status) ==
    DumpStatus(OpenStatusFile(st, job_id), job_id, status)

\* The mutant of WriterCpu: the write gives up the loop between open and
\* dump (as an awaited, asynchronous file write would).
WriterCpu_yields(t) == 0

\* Who holds the event loop between line 18 and line 19: save_job_status is
\* a plain `def`, called without await, so the writing task keeps it.
WriterCpu(t) == t

\* The mutant of load_job_status: the file is opened without the
\* os.path.exists test, and open() raises for an id that has no file.
load_job_status_unguarded(st, job_id) ==
    IF job_id \in DOMAIN st
    THEN IF st[job_id] = EmptyFile THEN ReadRaised ELSE st[job_id]
    ELSE ReadRaised

\* load_job_status
load_job_status(st, job_id) ==
    IF job_id \in DOMAIN st
    THEN IF st[job_id] = EmptyFile THEN ReadRaised ELSE st[job_id]
    ELSE [status |-> "unknown", message |-> "Job not found"]

\* The dict process_pptx and process_pptx_background write while processing.
Processing(job_id, message, progress) ==
    [status |-> "processing", message |-> message, progress |-> progress,
     job_id |-> job_id]

\* job_status.update({... "completed" ...})
Completed(job_id, video_path) ==
    [status |-> "completed", message |-> "Video generation complete",
     progress |-> 100, job_id |-> job_id, video_path |-> video_path,
     download_url |-> job_id]

\* The mutant of Errored: the except branch forgets to set the status.
Errored_still_processing(job_id) ==
    [status |-> "processing", message |-> "Error processing PPTX",
     progress |-> 0, job_id |-> job_id]

\* The dict of the except branch.
Errored(job_id) ==
    [status |-> "error", message |-> "Error processing PPTX", progress |-> 0,
     job_id |-> job_id]

(* ------------------------------- state -------------------------------- *)

VARIABLES
    clock,       \* int(time.time())
    cpu,         \* the task holding the event loop, 0 when it is free
    store,       \* job_results/<job_id>.json : job id -> record
    disk,        \* temp dir and output dir: path -> File
    temp_files,  \* VideoGenerator.temp_files of the shared instance
    task,        \* per request: position and local variables, and two
                 \* records of its run: registered = the paths it appended
                 \* to temp_files, rendered = the chunk paths it rendered
                 \* slices = the slices create_video cut its arguments into
                 \* (writing, after_pc, after_cpu: the record being dumped
                 \* and where the task goes on after the dump)
    hist,        \* per request: the records it wrote, in order
    calls,       \* per request: the tools and helpers it invoked, in order
    reply        \* the last answer of get_job_status / download_video

vars == <<clock, cpu, store, disk, temp_files, task, hist, calls, reply>>

IdleTask ==
    [pc |-> "idle", mode |-> "none", job_id |-> 0, deck |-> <<>>,
     resp |-> 0, tmp_path |-> FALSE, job_status |-> EmptyFile,
     chunk_size |-> 0, chunk_idx |-> 0, i |-> 0, k |-> 0,
     audio_files |-> <<>>, slide_clips |-> <<>>, all_video_clips |-> <<>>,
     registered |-> {}, rendered |-> <<>>, slices |-> <<>>,
     writing |-> EmptyFile, after_pc |-> "idle", after_cpu |-> 0]

Init ==
    /\ clock = 1
    /\ cpu = 0
    /\ store = <<>>
    /\ disk = <<>>
    /\ temp_files = <<>>
    /\ task = [t \in Tasks |-> IdleTask]
    /\ hist = [t \in Tasks |-> <<>>]
    /\ calls = [t \in Tasks |-> <<>>]
    /\ reply = [op |-> "none", job_id |-> 0, result |-> EmptyFile]

\* Requests take the task slots in order.
NextSlot(t) ==
    /\ task[t].pc = "idle"
    /\ \A u \in Tasks : u < t => task[u].pc # "idle"

\* The task has opened its status file and is about to dump `status`; it
\* goes on at `pc`, and the loop then belongs to `holder`.
BeginSave(tk, status, pc, holder) ==
    [tk EXCEPT !.pc = "dump", !.writing = status, !.job_status = status,
               !.after_pc = pc, !.after_cpu = holder]

(* ------------------------------ the clock ----------------------------- *)

\* A second passes.  Only int(time.time()) at a submission reads the clock,
\* and a submission needs the loop, so seconds are counted while it is free.
Tick ==
    /\ cpu = 0
    /\ clock < MaxClock
    /\ clock' = clock + 1
    /\ UNCHANGED <<cpu, store, disk, temp_files, task, hist, calls, reply>>

(* ----------------------------- process_pptx --------------------------- *)

SubmitOutcomes == {"too_large", "bad_type", "copy_failed", "invalid", "accepted"}

\* The HTTP status process_pptx answers with.
SubmitStatus(outcome) ==
    CASE outcome = "too_large" -> 413
      [] outcome = "bad_type" -> 415
      [] outcome = "copy_failed" -> 500
      [] outcome = "invalid" -> 400
      [] OTHER -> 202

\* Whether the NamedTemporaryFile(delete=False) is left on disk when
\* process_pptx returns: it is created at line 68; tmp_path is still None
\* when the copy raises, and `except HTTPException: raise` unlinks nothing.
SubmitLeavesTmp(outcome) == outcome \in {"copy_failed", "invalid", "accepted"}

\* The mutant of Validated: the PPTX content is not checked before the job
\* is created.
Validated_unchecked_content(outcome) == outcome \in {"accepted", "invalid"}

\* Lines 49-74: the size, file-name and content checks (and the copy of the
\* upload) all passed.
Validated(outcome) == outcome = "accepted"

\* process_pptx, up to the open() of save_job_status at line 86 (the
\* handler never awaits).  SaveDump ends it: dump, add_task, return 202.
process_pptx(t, deck, outcome) ==
    /\ cpu = 0
    /\ NextSlot(t)
    /\ IF Validated(outcome)
       THEN LET job_id == clock
                job_status == Processing(job_id, "Starting processing", 0)
            IN  /\ store' = OpenStatusFile(store, job_id)
                /\ task' = [task EXCEPT ![t] =
                       BeginSave([@ EXCEPT !.mode = "job", !.job_id = job_id,
                                           !.deck = deck, !.resp = 202,
                                           !.tmp_path = TRUE],
                                 job_status, "scheduled", 0)]
                /\ cpu' = WriterCpu(t)
       ELSE /\ deck = <<Spoken>>  \* a rejected upload is never read as a deck
            /\ task' = [task EXCEPT ![t] =
                   [@ EXCEPT !.pc = "rejected", !.mode = "job",
                             !.resp = SubmitStatus(outcome),
                             !.tmp_path = SubmitLeavesTmp(outcome)]]
            /\ UNCHANGED <<store, cpu>>
    /\ UNCHANGED <<clock, disk, temp_files, hist, calls, reply>>

(* ------------------------- get_job_status, download ------------------- *)

\* get_job_status
get_job_status(job_id) ==
    /\ cpu = 0
    /\ reply' = [op |-> "status", job_id |-> job_id,
                 result |-> load_job_status(store, job_id)]
    /\ UNCHANGED <<clock, cpu, store, disk, temp_files, task, hist, calls>>

\* The mutant of DownloadResult: the os.path.exists test is dropped.
DownloadResultUnchecked(st, dsk, job_id) ==
    LET job_status == load_job_status(st, job_id)
    IN  IF job_status = ReadRaised THEN "raised"
        ELSE IF job_status.status # "completed"
                \/ "video_path" \notin DOMAIN job_status
        THEN "404 Video not available"
        ELSE "video"

\* download_video's answer on a given store and disk.
DownloadResult(st, dsk, job_id) ==
    LET job_status == load_job_status(st, job_id)
    IN  IF job_status = ReadRaised THEN "raised"
        ELSE IF job_status.status # "completed"
                \/ "video_path" \notin DOMAIN job_status
        THEN "404 Video not available"
        ELSE IF ~Exists(dsk, job_status.video_path)
        THEN "404 Video file not found"
        ELSE "video"

\* download_video
download_video(job_id) ==
    /\ cpu = 0
    /\ reply' = [op |-> "download", job_id |-> job_id,
                 result |-> [status |-> DownloadResult(store, disk, job_id)]]
    /\ UNCHANGED <<clock, cpu, store, disk, temp_files, task, hist, calls>>

(* ------------------------ VideoGenerator helpers ---------------------- *)

Min(a, b) == IF a < b THEN a ELSE b

\* The mutant of _calculate_optimal_chunk_size: no chunking at all.
calculate_optimal_chunk_size_whole(total_slides) == total_slides

\* _calculate_optimal_chunk_size
calculate_optimal_chunk_size(total_slides) ==
    IF total_slides <= 5 THEN total_slides
    ELSE IF total_slides <= 15 THEN 5
    ELSE 8

\* The indexes (from 0) that the slice lst[i:j] of a list of length n takes,
\* for 0 <= i <= j.
PySlice(n, i, j) == [m \in 1..(Min(j, n) - Min(i, n)) |-> i + m - 1]

\* Lines 36-37: chunk_images and chunk_transcripts, as slide indexes.
ChunkSlices(tk) ==
    [images |-> PySlice(Len(tk.deck), tk.i, tk.i + tk.chunk_size),
     transcripts |-> PySlice(Len(tk.deck), tk.i, tk.i + tk.chunk_size)]

\* len(slide_images[i:i + optimal_chunk_size])
ChunkLen(tk) == Min(tk.chunk_size, Len(tk.deck) - tk.i)

\* The k-th (from 0) slide of the current chunk.
ChunkSlide(tk, k) == tk.deck[tk.i + k + 1]

\* A clip: the slide it shows (owner's slide number), its duration, and the
\* sound attached to it (aowner = 0: silent).
Clip(owner, slide, dur, aowner, aslide) ==
    [owner |-> owner, slide |-> slide, dur |-> dur,
     aowner |-> aowner, aslide |-> aslide]

\* The bytes generate_speech returned for one slide, as written to the mp3.
AudioFile(owner, slide) == File(owner, <<Clip(owner, slide, 0, owner, slide)>>, <<>>)

\* ImageClip(image_path).set_duration(duration), then set_audio(
\* AudioFileClip(audio_path)) when the audio file exists.
MakeClip(dsk, owner, slide, dur, audio_path) ==
    IF Exists(dsk, audio_path)
    THEN Clip(owner, slide, dur, dsk[audio_path].clips[1].aowner,
              dsk[audio_path].clips[1].aslide)
    ELSE Clip(owner, slide, dur, 0, 0)

RECURSIVE ConcatClips(_, _)
\* The clips of the files at `paths`, one file after the other.
ConcatClips(dsk, paths) ==
    IF paths = <<>> THEN <<>>
    ELSE dsk[Head(paths)].clips \o ConcatClips(dsk, Tail(paths))

RECURSIVE RemoveAll(_, _)
\* The loop of _cleanup_temp_files: remove every listed path that exists.
RemoveAll(dsk, paths) ==
    IF paths = <<>> THEN dsk
    ELSE RemoveAll(IF Exists(dsk, Head(paths)) THEN RemoveFile(dsk, Head(paths))
                   ELSE dsk, Tail(paths))

\* The mutant of cleanup_temp_files: the list is cleared, nothing is removed.
cleanup_temp_files_forget(dsk, paths) == dsk

\* _cleanup_temp_files (the disk it leaves; the list is then emptied).
cleanup_temp_files(dsk, paths) == RemoveAll(dsk, paths)

\* The mutant of RaisedPc: the raise escapes process_pptx_background (no
\* `except Exception`), so the task ends without writing a record.
RaisedPc_escapes(tk) == "raised"

\* Where a raise inside create_video lands: in the except branch of
\* process_pptx_background, or at the caller of a direct call.
RaisedPc(tk) == IF tk.mode = "job" THEN "except" ELSE "raised"

\* The locals of create_video and _process_chunk end with the call.
Return(tk) ==
    [tk EXCEPT !.chunk_size = 0, !.chunk_idx = 0, !.i = 0, !.k = 0,
               !.audio_files = <<>>, !.slide_clips = <<>>,
               !.all_video_clips = <<>>, !.slices = <<>>]

\* The task after a raise inside create_video.
Raised(tk) == [Return(tk) EXCEPT !.pc = RaisedPc(tk)]

\* Who holds the loop after that raise (the job's task goes on, a direct
\* call has ended).
RaisedCpu(t, tk) == IF tk.mode = "job" THEN t ELSE 0

\* create_video, lines 21-35: the chunk size, the empty result list, and the
\* range() of the loop, which raises ValueError for a step of 0.
EnterCreateVideo(tk) ==
    LET size == calculate_optimal_chunk_size(Len(tk.deck))
    IN  IF size = 0
        THEN Raised(tk)
        ELSE [tk EXCEPT !.pc = "cv_loop", !.chunk_size = size,
                        !.chunk_idx = 0, !.i = 0, !.all_video_clips = <<>>]

(* ----------------------- process_pptx_background ---------------------- *)

Log(t, event) == [calls EXCEPT ![t] = Append(@, event)]

\* The finally block: os.unlink(tmp_path) when it exists.
Finally(tk) == [Return(tk) EXCEPT !.pc = "done", !.tmp_path = FALSE]

\* Lines 113-133: write progress 10, extract the text, open the status
\* file for progress 30 (SaveDump writes it), then await the transcripts.
\* generate_transcript only suspends when some slide has text to send; a
\* raise goes to the except branch.
BgExtract(t, ok) ==
    LET tk == task[t]
        s10 == Processing(tk.job_id, "Extracting text from slides", 10)
        s30 == [s10 EXCEPT !.message = "Generating transcripts with AI",
                           !.progress = 30]
        st10 == save_job_status(store, tk.job_id, s10)
    IN  /\ cpu = 0
        /\ tk.pc = "scheduled"
        /\ IF ok
           THEN /\ store' = OpenStatusFile(st10, tk.job_id)
                /\ task' = [task EXCEPT ![t] =
                       BeginSave(tk, s30, "transcribe",
                                 IF \E n \in 1..Len(tk.deck) : tk.deck[n].text
                                 THEN 0 ELSE t)]
                /\ cpu' = WriterCpu(t)
           ELSE /\ store' = st10
                /\ task' = [task EXCEPT ![t] =
                       [@ EXCEPT !.pc = "except", !.job_status = s10]]
                /\ cpu' = t
        /\ hist' = [hist EXCEPT ![t] = Append(@, s10)]
        /\ calls' = Log(t, IF ok THEN "extract_text" ELSE "extract_text raised")
        /\ UNCHANGED <<clock, disk, temp_files, reply>>

\* Lines 135-156: write progress 50, extract the slide images into the
\* TemporaryDirectory, open the status file for progress 70 (SaveDump
\* writes it) and enter create_video.
BgImages(t, ok) ==
    LET tk == task[t]
        s50 == [tk.job_status EXCEPT !.message = "Extracting slide images",
                                     !.progress = 50]
        s70 == [s50 EXCEPT !.message = "Generating video with voiceovers",
                           !.progress = 70]
        st50 == save_job_status(store, tk.job_id, s50)
        entered == EnterCreateVideo(tk)
    IN  /\ cpu \in {0, t}
        /\ tk.pc = "transcribe"
        /\ IF ok
           THEN /\ store' = OpenStatusFile(st50, tk.job_id)
                /\ task' = [task EXCEPT ![t] =
                       BeginSave(entered, s70, entered.pc, t)]
                /\ cpu' = WriterCpu(t)
           ELSE /\ store' = st50
                /\ task' = [task EXCEPT ![t] =
                       [tk EXCEPT !.pc = "except", !.job_status = s50]]
                /\ cpu' = t
        /\ hist' = [hist EXCEPT ![t] = Append(@, s50)]
        /\ calls' = [calls EXCEPT ![t] =
               @ \o <<"generate_transcript",
                      IF ok THEN "extract_slide_images"
                      ELSE "extract_slide_images raised">>]
        /\ UNCHANGED <<clock, disk, temp_files, reply>>

\* The mutant of BgComplete: create_video is called without `await`, so the
\* completed record is written while the video has not been made.
BgComplete_unawaited(t, teardown_ok) ==
    LET tk == task[t]
        done == Completed(tk.job_id, OutputPath(tk.job_id))
    IN  /\ cpu = t
        /\ tk.pc \in {"cv_return", "cv_loop"}
        /\ store' = OpenStatusFile(store, tk.job_id)
        /\ task' = [task EXCEPT ![t] =
               IF teardown_ok THEN BeginSave(tk, done, "done", 0)
               ELSE BeginSave(tk, done, "except", t)]
        /\ cpu' = WriterCpu(t)
        /\ calls' = IF teardown_ok THEN calls ELSE Log(t, "teardown raised")
        /\ UNCHANGED <<clock, disk, temp_files, hist, reply>>

\* Lines 158-168: create_video has returned; open the status file for the
\* completed record inside the `with` (SaveDump writes it), then leave the
\* TemporaryDirectory: its removal may raise, which lands in the except
\* branch; otherwise the finally block ends the task.
BgComplete(t, teardown_ok) ==
    LET tk == task[t]
        done == Completed(tk.job_id, OutputPath(tk.job_id))
    IN  /\ cpu = t
        /\ tk.pc = "cv_return"
        /\ store' = OpenStatusFile(store, tk.job_id)
        /\ task' = [task EXCEPT ![t] =
               IF teardown_ok THEN BeginSave(tk, done, "done", 0)
               ELSE BeginSave(tk, done, "except", t)]
        /\ cpu' = WriterCpu(t)
        /\ calls' = IF teardown_ok THEN calls ELSE Log(t, "teardown raised")
        /\ UNCHANGED <<clock, disk, temp_files, hist, reply>>

\* Lines 170-187: the except branch opens the status file for the error
\* record (SaveDump writes it), then the finally block unlinks the upload.
BgExcept(t) ==
    LET tk == task[t]
        failed == Errored(tk.job_id)
    IN  /\ cpu = t
        /\ tk.pc = "except"
        /\ store' = OpenStatusFile(store, tk.job_id)
        /\ task' = [task EXCEPT ![t] = BeginSave(tk, failed, "done", 0)]
        /\ cpu' = WriterCpu(t)
        /\ UNCHANGED <<clock, disk, temp_files, hist, calls, reply>>

\* Line 19 and what follows it up to the next suspension: json.dump writes
\* the record; the task goes on where the handler said, through the finally
\* block when the background task is over.
SaveDump(t) ==
    LET tk == task[t]
    IN  /\ cpu = WriterCpu(t)
        /\ tk.pc = "dump"
        /\ store' = DumpStatus(store, tk.job_id, tk.writing)
        /\ hist' = [hist EXCEPT ![t] = Append(@, tk.writing)]
        /\ task' = [task EXCEPT ![t] =
               IF tk.after_pc = "done"
               THEN Finally([tk EXCEPT !.writing = EmptyFile])
               ELSE [tk EXCEPT !.pc = tk.after_pc, !.writing = EmptyFile]]
        /\ cpu' = tk.after_cpu
        /\ UNCHANGED <<clock, disk, temp_files, calls, reply>>

(* ------------------------------ create_video -------------------------- *)

\* A direct call create_video(slide_images, transcripts, f"{name}.mp4").
create_video_call(t, deck, name) ==
    LET tk == EnterCreateVideo([IdleTask EXCEPT !.mode = "call", !.deck = deck,
                                                !.job_id = name])
    IN  /\ cpu = 0
        /\ NextSlot(t)
        /\ task' = [task EXCEPT ![t] = tk]
        /\ cpu' = IF tk.pc = "raised" THEN 0 ELSE t
        /\ UNCHANGED <<clock, store, disk, temp_files, hist, calls, reply>>

\* Lines 35-40 and 73-80: the head of the chunk loop and the start of
\* _process_chunk, which registers the chunk's video path for clean-up.
CvLoop(t) ==
    LET tk == task[t]
    IN  /\ cpu = t
        /\ tk.pc = "cv_loop"
        /\ IF tk.i < Len(tk.deck)
           THEN /\ temp_files' = Append(temp_files, ChunkPath(tk.chunk_idx))
                /\ task' = [task EXCEPT ![t] =
                       [tk EXCEPT !.pc = "audio", !.k = 0, !.audio_files = <<>>,
                                  !.slices = Append(@, ChunkSlices(tk)),
                                  !.registered = @ \cup {ChunkPath(tk.chunk_idx)}]]
           ELSE /\ temp_files' = temp_files
                /\ task' = [task EXCEPT ![t] = [tk EXCEPT !.pc = "combine"]]
        /\ UNCHANGED <<clock, cpu, store, disk, hist, calls, reply>>

\* Lines 81-85 with 233-241: one turn of the audio loop.  A blank transcript
\* returns "" at once; otherwise the task awaits generate_speech.
PcAudio(t) ==
    LET tk == task[t]
    IN  /\ cpu = t
        /\ tk.pc = "audio"
        /\ IF tk.k < ChunkLen(tk)
           THEN IF ChunkSlide(tk, tk.k).text
                THEN /\ task' = [task EXCEPT ![t] = [tk EXCEPT !.pc = "tts"]]
                     /\ cpu' = 0
                     /\ calls' = Log(t, "tts")
                ELSE /\ task' = [task EXCEPT ![t] =
                            [tk EXCEPT !.audio_files = Append(@, NoAudio),
                                       !.k = @ + 1]]
                     /\ UNCHANGED <<cpu, calls>>
           ELSE /\ task' = [task EXCEPT ![t] =
                       [tk EXCEPT !.pc = "clips", !.k = 0, !.slide_clips = <<>>]]
                /\ UNCHANGED <<cpu, calls>>
        /\ UNCHANGED <<clock, store, disk, temp_files, hist, reply>>

\* Lines 243-255: generate_speech has returned its bytes (the mp3 is written
\* and registered) or raised (the slide has no audio).
PcTts(t, ok) ==
    LET tk == task[t]
        audio_path == AudioPath(tk.chunk_idx, tk.k)
    IN  /\ cpu = 0
        /\ tk.pc = "tts"
        /\ IF ok
           THEN /\ disk' = WriteFile(disk, audio_path, AudioFile(t, tk.i + tk.k))
                /\ temp_files' = Append(temp_files, audio_path)
                /\ task' = [task EXCEPT ![t] =
                       [tk EXCEPT !.pc = "audio", !.k = @ + 1,
                                  !.audio_files = Append(@, audio_path),
                                  !.registered = @ \cup {audio_path}]]
           ELSE /\ task' = [task EXCEPT ![t] =
                       [tk EXCEPT !.pc = "audio", !.k = @ + 1,
                                  !.audio_files = Append(@, NoAudio)]]
                /\ UNCHANGED <<disk, temp_files>>
        /\ cpu' = t
        /\ UNCHANGED <<clock, store, hist, calls, reply>>

\* The mutant of AfterChunk: the loop steps one slide too far.
AfterChunk_gap(tk, ret, dsk) ==
    [tk EXCEPT !.all_video_clips =
                   IF ret # NonePath /\ Exists(dsk, ret) THEN Append(@, ret) ELSE @,
               !.i = @ + tk.chunk_size + 1,
               !.chunk_idx = @ + 1,
               !.pc = "cv_loop"]

\* Lines 48-49 after _process_chunk returned `ret`: the path is kept when it
\* is not None and a file exists there; then the loop moves on.
AfterChunk(tk, ret, dsk) ==
    [tk EXCEPT !.all_video_clips =
                   IF ret # NonePath /\ Exists(dsk, ret) THEN Append(@, ret) ELSE @,
               !.i = @ + tk.chunk_size,
               !.chunk_idx = @ + 1,
               !.pc = "cv_loop"]

\* The mutant of SlideSkipped: the os.path.exists test is dropped.
SlideSkipped_never(tk, k) == FALSE

\* Lines 90-92: the k-th slide of the chunk is skipped when its image path
\* does not exist.
SlideSkipped(tk, k) == ~ChunkSlide(tk, k).img

\* Lines 89-108 and 130: one turn of the clip loop.  A missing image skips the
\* slide; an existing audio file is probed (an await); a slide without audio
\* gets the default duration.  After the last slide the chunk is rendered,
\* or, with no clip at all, its path is returned as it is.
PcClip(t) ==
    LET tk == task[t]
        audio_path == tk.audio_files[tk.k + 1]
    IN  /\ cpu = t
        /\ tk.pc = "clips"
        /\ IF tk.k < Min(ChunkLen(tk), Len(tk.audio_files))
           THEN IF SlideSkipped(tk, tk.k)
                THEN /\ task' = [task EXCEPT ![t] = [tk EXCEPT !.k = @ + 1]]
                     /\ UNCHANGED <<cpu, calls>>
                ELSE IF Exists(disk, audio_path)
                THEN /\ task' = [task EXCEPT ![t] = [tk EXCEPT !.pc = "probe"]]
                     /\ cpu' = 0
                     /\ calls' = Log(t, "ffprobe")
                ELSE /\ task' = [task EXCEPT ![t] =
                            [tk EXCEPT !.k = @ + 1,
                                       !.slide_clips = Append(@,
                                           MakeClip(disk, t, tk.i + tk.k,
                                                    DefaultDuration, audio_path))]]
                     /\ UNCHANGED <<cpu, calls>>
           ELSE IF tk.slide_clips # <<>>
                THEN /\ task' = [task EXCEPT ![t] = [tk EXCEPT !.pc = "rendering"]]
                     /\ calls' = Log(t, "render")
                     /\ UNCHANGED cpu
                ELSE /\ task' = [task EXCEPT ![t] =
                            AfterChunk(tk, ChunkPath(tk.chunk_idx), disk)]
                     /\ UNCHANGED <<cpu, calls>>
        /\ UNCHANGED <<clock, store, disk, temp_files, hist, reply>>

\* The mutant of get_audio_duration: a failed probe has no default.
get_audio_duration_no_default(outcome) == outcome

\* _get_audio_duration: ffprobe's answer, 3.0 when it failed (outcome 0).
get_audio_duration(outcome) == IF outcome = 0 THEN DefaultDuration ELSE outcome

\* Lines 95-105 after the probe: the clip gets the probed duration, and the
\* audio when the file (still) exists.
PcProbe(t, outcome) ==
    LET tk == task[t]
        audio_path == tk.audio_files[tk.k + 1]
    IN  /\ cpu = 0
        /\ tk.pc = "probe"
        /\ task' = [task EXCEPT ![t] =
               [tk EXCEPT !.pc = "clips", !.k = @ + 1,
                          !.slide_clips = Append(@,
                              MakeClip(disk, t, tk.i + tk.k,
                                       get_audio_duration(outcome), audio_path))]]
        /\ cpu' = t
        /\ UNCHANGED <<clock, store, disk, temp_files, hist, calls, reply>>

\* Lines 109-134: concatenate_videoclips and write_videofile, a synchronous
\* call.  It writes the chunk video, or raises and _process_chunk returns None.
PcRendered(t, ok) ==
    LET tk == task[t]
        chunk_video_path == ChunkPath(tk.chunk_idx)
        dsk == IF ok THEN WriteFile(disk, chunk_video_path,
                                    File(t, tk.slide_clips, <<>>))
               ELSE disk
    IN  /\ cpu = t
        /\ tk.pc = "rendering"
        /\ disk' = dsk
        /\ task' = [task EXCEPT ![t] =
               AfterChunk([tk EXCEPT !.rendered =
                               IF ok THEN Append(@, chunk_video_path) ELSE @],
                          IF ok THEN chunk_video_path ELSE NonePath, dsk)]
        /\ UNCHANGED <<clock, cpu, store, temp_files, hist, calls, reply>>

(* ------------------------------ _combine_chunks ----------------------- *)

\* The chunk paths of a list that exist on disk, in order (lines 184-187).
Present(dsk, chunk_paths) == SelectSeq(chunk_paths, LAMBDA p : Exists(dsk, p))

\* _combine_with_moviepy.  video_generator.py imports ImageClip,
\* AudioFileClip and concatenate_videoclips from moviepy.editor and nothing
\* else, so VideoFileClip(chunk_path) at line 186 raises NameError for the
\* first chunk that exists; with no chunk on disk the loop builds nothing
\* and the function returns without writing.
combine_with_moviepy(dsk, chunk_paths, output_path) ==
    IF Present(dsk, chunk_paths) # <<>>
    THEN [raised |-> TRUE, disk |-> dsk]
    ELSE [raised |-> FALSE, disk |-> dsk]

\* The ffmpeg run can end with exit code 0 only when it can read the
\* manifest at concat_list.txt and every file the manifest lists.
FfmpegCanSucceed(dsk) ==
    /\ Exists(dsk, ConcatFile)
    /\ \A n \in 1..Len(dsk[ConcatFile].list) : Exists(dsk, dsk[ConcatFile].list[n])

FfmpegOutcomes == {"ok", "nonzero", "raise"}

\* The mutant of combine_after_ffmpeg: a failing fallback is swallowed.
combine_after_ffmpeg_swallow(dsk, outcome, chunk_paths, output_path) ==
    [raised |-> FALSE, disk |-> dsk, fallbacks |-> 1]

\* Lines 162-179 once the ffmpeg subprocess is over: exit code 0 ends the
\* function; a non-zero exit calls the fallback inside the try, so a raise of
\* the fallback is caught by `except Exception`, which calls it again; a
\* raise of the subprocess calls it once.  fallbacks counts the calls.
combine_after_ffmpeg(dsk, outcome, chunk_paths, output_path) ==
    LET first == combine_with_moviepy(dsk, chunk_paths, output_path)
        second == combine_with_moviepy(first.disk, chunk_paths, output_path)
    IN  IF outcome = "nonzero" /\ first.raised
        THEN [raised |-> second.raised, disk |-> second.disk, fallbacks |-> 2]
        ELSE [raised |-> first.raised, disk |-> first.disk, fallbacks |-> 1]

\* create_video line 52 and _combine_chunks lines 138-160: nothing to join;
\* or one chunk, renamed to the output path (os.rename raises when the chunk
\* is gone); or the manifest is registered and written and ffmpeg awaited.
CvCombine(t) ==
    LET tk == task[t]
        chunk_paths == tk.all_video_clips
        output_path == OutputPath(tk.job_id)
    IN  /\ cpu = t
        /\ tk.pc = "combine"
        /\ IF chunk_paths = <<>>
           THEN /\ task' = [task EXCEPT ![t] = [tk EXCEPT !.pc = "cleanup"]]
                /\ UNCHANGED <<cpu, disk, temp_files, calls>>
           ELSE IF Len(chunk_paths) = 1
           THEN /\ temp_files' = temp_files
                /\ calls' = Log(t, IF Exists(disk, chunk_paths[1])
                                   THEN "rename" ELSE "rename raised")
                /\ IF Exists(disk, chunk_paths[1])
                   THEN /\ disk' = RenameFile(disk, chunk_paths[1], output_path)
                        /\ task' = [task EXCEPT ![t] = [tk EXCEPT !.pc = "cleanup"]]
                        /\ cpu' = cpu
                   ELSE /\ disk' = disk
                        /\ task' = [task EXCEPT ![t] = Raised(tk)]
                        /\ cpu' = RaisedCpu(t, tk)
           ELSE /\ temp_files' = Append(temp_files, ConcatFile)
                /\ disk' = WriteFile(disk, ConcatFile, File(t, <<>>, chunk_paths))
                /\ task' = [task EXCEPT ![t] =
                       [tk EXCEPT !.pc = "ffmpeg",
                                  !.registered = @ \cup {ConcatFile}]]
                /\ cpu' = 0
                /\ calls' = Log(t, "ffmpeg")
        /\ UNCHANGED <<clock, store, hist, reply>>

\* Lines 162-179: the ffmpeg subprocess is over.
CvFfmpeg(t, outcome) ==
    LET tk == task[t]
        output_path == OutputPath(tk.job_id)
        r == combine_after_ffmpeg(disk, outcome, tk.all_video_clips, output_path)
        \* what the fallback does on this disk, for the record in calls
        fallback == combine_with_moviepy(disk, tk.all_video_clips, output_path)
    IN  /\ cpu = 0
        /\ tk.pc = "ffmpeg"
        /\ outcome = "ok" => FfmpegCanSucceed(disk)
        /\ IF outcome = "ok"
           THEN /\ disk' = WriteFile(disk, output_path,
                               File(t, ConcatClips(disk, disk[ConcatFile].list), <<>>))
                /\ task' = [task EXCEPT ![t] = [tk EXCEPT !.pc = "cleanup"]]
                /\ cpu' = t
                /\ calls' = Log(t, "ffmpeg ok")
           ELSE /\ disk' = r.disk
                /\ task' = [task EXCEPT ![t] =
                       IF r.raised THEN Raised(tk) ELSE [tk EXCEPT !.pc = "cleanup"]]
                /\ cpu' = IF r.raised THEN RaisedCpu(t, tk) ELSE t
                /\ calls' = [calls EXCEPT ![t] =
                       @ \o <<IF outcome = "nonzero" THEN "ffmpeg nonzero"
                              ELSE "ffmpeg raised">>
                         \o [n \in 1..r.fallbacks |-> "moviepy"]
                         \o (IF fallback.raised THEN <<"moviepy raised">>
                             ELSE <<>>)]
        /\ UNCHANGED <<clock, store, temp_files, hist, reply>>

\* Lines 56-59: _cleanup_temp_files, then create_video returns output_path.
CvCleanup(t) ==
    LET tk == task[t]
    IN  /\ cpu = t
        /\ tk.pc = "cleanup"
        /\ disk' = cleanup_temp_files(disk, temp_files)
        /\ temp_files' = <<>>
        /\ task' = [task EXCEPT ![t] =
               [Return(tk) EXCEPT
                   !.pc = IF tk.mode = "job" THEN "cv_return" ELSE "returned"]]
        /\ cpu' = IF tk.mode = "job" THEN t ELSE 0
        /\ calls' = Log(t, "create_video")
        /\ UNCHANGED <<clock, store, hist, reply>>

(* ---------------------------- specifications -------------------------- *)

\* The steps of create_video, shared by the pipeline and by direct calls.
CreateVideoStep ==
    \E t \in Tasks :
        \/ CvLoop(t)
        \/ PcAudio(t)
        \/ \E ok \in BOOLEAN : PcTts(t, ok)
        \/ PcClip(t)
        \/ \E d \in ProbeDurations \cup {0} : PcProbe(t, d)
        \/ \E ok \in BOOLEAN : PcRendered(t, ok)
        \/ CvCombine(t)
        \/ \E outcome \in FfmpegOutcomes : CvFfmpeg(t, outcome)
        \/ CvCleanup(t)

\* The service: submissions, their background tasks, status and download
\* queries, on one event loop.
Next ==
    \/ Tick
    \/ \E t \in Tasks, deck \in PipelineDecks, outcome \in SubmitOutcomes :
           process_pptx(t, deck, outcome)
    \/ \E t \in Tasks, ok \in BOOLEAN : BgExtract(t, ok)
    \/ \E t \in Tasks, ok \in BOOLEAN : BgImages(t, ok)
    \/ \E t \in Tasks, ok \in BOOLEAN : BgComplete(t, ok)
    \/ \E t \in Tasks : BgExcept(t)
    \/ \E t \in Tasks : SaveDump(t)
    \/ CreateVideoStep
    \/ \E job_id \in PollIds : get_job_status(job_id)
    \/ \E job_id \in PollIds : download_video(job_id)

Spec == Init /\ [][Next]_vars

\* create_video called directly on the shared VideoGenerator, with any of
\* CallDecks as its arguments.
NextCall ==
    \/ \E t \in Tasks, deck \in CallDecks, name \in 1..MaxClock :
           create_video_call(t, deck, name)
    \/ CreateVideoStep

SpecCall == Init /\ [][NextCall]_vars

\* create_video called on arguments of every length; none of the slides has
\* narration or an image, so the steps that await or render never occur.
NextPlan ==
    \/ \E t \in Tasks, deck \in PlanDecks, name \in 1..MaxClock :
           create_video_call(t, deck, name)
    \/ \E t \in Tasks : CvLoop(t)
    \/ \E t \in Tasks : PcAudio(t)
    \/ \E t \in Tasks : PcClip(t)
    \/ \E t \in Tasks : CvCombine(t)
    \/ \E t \in Tasks : CvCleanup(t)

SpecPlan == Init /\ [][NextPlan]_vars

\* A step of a background task or of the handler that started it: what the
\* event loop runs once it is ready to run.
BackgroundStep ==
    \/ \E t \in Tasks, ok \in BOOLEAN : BgExtract(t, ok)
    \/ \E t \in Tasks, ok \in BOOLEAN : BgImages(t, ok)
    \/ \E t \in Tasks, ok \in BOOLEAN : BgComplete(t, ok)
    \/ \E t \in Tasks : BgExcept(t)
    \/ \E t \in Tasks : SaveDump(t)
    \/ CreateVideoStep

\* The service without its read-only queries.
NextLive ==
    \/ Tick
    \/ \E t \in Tasks, deck \in PipelineDecks, outcome \in SubmitOutcomes :
           process_pptx(t, deck, outcome)
    \/ BackgroundStep

\* The event loop runs every callback that is ready, and every external
\* call (LLM request, synthesis, ffprobe, ffmpeg) returns or raises: a step
\* of some task is taken as long as one is possible.
SpecLive == Init /\ [][NextLive]_vars /\ WF_vars(BackgroundStep)

(* ================================ claims ============================== *)

Last(seq) == seq[Len(seq)]

Milestones == {0, 10, 30, 50, 70, 100}

\* The events of `calls` that are a raise reaching process_pptx_background.
RaiseEvents ==
    {"extract_text raised", "extract_slide_images raised", "teardown raised",
     "rename raised", "moviepy raised"}

StageRaised(t) == \E n \in 1..Len(calls[t]) : calls[t][n] \in RaiseEvents

\* The run of a job is over: the background task has left its finally block.
RunOver(t) == task[t].pc = "done"

NonDecreasing(seq) ==
    \A m, n \in 1..Len(seq) : m < n => seq[m].progress <= seq[n].progress

(* C1: over a run that ends with status completed, the progress values the *)
(* run wrote, from the 0 of the submission on, never decrease and all lie  *)
(* in {0,10,30,50,70,100}; a run in which a stage raised ends with its     *)
(* last written record at status error and progress 0.                     *)
C1_ProgressOfARun ==
    \A t \in Tasks :
        /\ \A n \in 1..Len(hist[t]) : hist[t][n].progress \in Milestones
        /\ (RunOver(t) /\ Last(hist[t]).status = "completed")
               => /\ hist[t][1].progress = 0
                  /\ NonDecreasing(hist[t])
        /\ (RunOver(t) /\ StageRaised(t))
               => /\ Last(hist[t]).status = "error"
                  /\ Last(hist[t]).progress = 0

\* C1's case: one run completed through all six writes, another ended after
\* a stage raised.
C1_Witness ==
    \E t, u \in Tasks :
        /\ RunOver(t) /\ Last(hist[t]).status = "completed" /\ Len(hist[t]) = 6
        /\ RunOver(u) /\ StageRaised(u)

(* C2: when the run of a job ends, by a normal return of create_video or   *)
(* by a raise of chunk assembly or concatenation, no path the run          *)
(* registered in the clean-up list exists on disk any more.                *)
C2_CleanupOnEveryExit ==
    [][\A t \in Tasks :
          (~RunOver(t) /\ RunOver(t)')
              => \A p \in task'[t].registered : ~Exists(disk', p)]_vars

(* C3: once the stored record of a job id has status completed or error,   *)
(* no later write changes it.                                              *)
C3_TerminalRecordImmutable ==
    [][\A job_id \in DOMAIN store :
          store[job_id].status \in {"completed", "error"}
              => store'[job_id] = store[job_id]]_vars

\* A download_video step and the id it was asked for.
Downloaded(job_id) ==
    /\ reply' # reply
    /\ reply'.op = "download"
    /\ reply'.job_id = job_id

(* C4: download_video returns the video only if the stored record of the   *)
(* id has status completed and the file at its video_path exists; for an   *)
(* unknown id, a record at processing or error, or a completed record      *)
(* whose file is missing it answers 404.                                   *)
C4_DownloadOnlyCompletedAndPresent ==
    [][\A job_id \in PollIds :
          Downloaded(job_id) =>
              LET available ==
                      /\ job_id \in DOMAIN store
                      /\ store[job_id].status = "completed"
                      /\ Exists(disk, store[job_id].video_path)
              IN  /\ reply'.result.status = "video" <=> available
                  /\ ~available => reply'.result.status \in
                         {"404 Video not available", "404 Video file not found"}]_vars

\* C4's case: a download was served, and the jobs include one that ended in
\* error.
C4_Witness ==
    /\ reply.op = "download"
    /\ reply.result.status = "video"
    /\ \E t \in Tasks : RunOver(t) /\ Last(hist[t]).status = "error"

\* A get_job_status step and the id it was asked for.
Polled(job_id) ==
    /\ reply' # reply
    /\ reply'.op = "status"
    /\ reply'.job_id = job_id

OwnFiles(t, paths) ==
    \A n \in 1..Len(paths) :
        Exists(disk, paths[n]) => disk[paths[n]].owner = t

\* Every picture and sound of the video is a slide of the task that wrote it.
OwnSlidesOnly(video) ==
    \A n \in 1..Len(video.clips) :
        /\ video.clips[n].owner = video.owner
        /\ video.clips[n].aowner \in {0, video.owner}

(* C6: jobs share no mutable state but the job store: the audio and chunk  *)
(* files a job's task is about to use are its own, never another job's,    *)
(* and every final video is built only from the slides of the job that     *)
(* wrote it.                                                               *)
C6_NoCrossJobState ==
    /\ \A t \in Tasks :
           /\ OwnFiles(t, task[t].audio_files)
           /\ OwnFiles(t, task[t].all_video_clips)
    /\ \A p \in DOMAIN disk : p[1] = "out" => OwnSlidesOnly(disk[p])

\* The submission was accepted (HTTP 202) and a job was created.
Accepted(t) == task[t].resp = 202

(* C7: any two accepted submissions have different job ids.                *)
C7_JobIdsUnique ==
    \A t, u \in Tasks :
        (t # u /\ Accepted(t) /\ Accepted(u)) => task[t].job_id # task[u].job_id

(* C8: the list of chunk paths create_video hands to _combine_chunks is,   *)
(* in chunk-index order, exactly the paths of the chunks this run          *)
(* rendered; a chunk that did not materialize in this run contributes no   *)
(* path.                                                                   *)
C8_ConcatenatedAreRendered ==
    \A t \in Tasks :
        task[t].pc = "combine" => task[t].all_video_clips = task[t].rendered

FfmpegFailed(t) ==
    \E n \in 1..Len(calls[t]) : calls[t][n] \in {"ffmpeg nonzero", "ffmpeg raised"}

FallbackRaised(t) ==
    \E n \in 1..Len(calls[t]) : calls[t][n] = "moviepy raised"

\* The clips of a video that shows the slides 0..n-1 of task t in order.
ShowsAllSlides(video, t, n) ==
    /\ Len(video.clips) = n
    /\ \A m \in 1..n : video.clips[m].owner = t /\ video.clips[m].slide = m - 1

(* C9: when ffmpeg exits non-zero or raises while joining two or more      *)
(* chunks, the re-encode fallback produces the final video at the output   *)
(* path, covering all chunks in their order, and the job completes.        *)
C9_FallbackProducesVideo ==
    \A t \in Tasks :
        FfmpegFailed(t) =>
            /\ task[t].pc # "except"
            /\ task[t].pc = "cleanup" =>
                   /\ Exists(disk, OutputPath(task[t].job_id))
                   /\ ShowsAllSlides(disk[OutputPath(task[t].job_id)], t,
                                     Len(task[t].deck))
            /\ RunOver(t) => Last(hist[t]).status = "completed"

(* C10: when the stream copy and the re-encode fallback both fail, the     *)
(* failure leaves _combine_chunks and create_video, and the job's run      *)
(* never writes a completed record: its last record has status error.      *)
C10_BothPathsFailIsError ==
    \A t \in Tasks :
        (FfmpegFailed(t) /\ FallbackRaised(t)) =>
            /\ task[t].pc \in {"except", "dump", "done"}
            /\ task[t].pc = "dump" => task[t].writing.status = "error"
            /\ \A n \in 1..Len(hist[t]) : hist[t][n].status # "completed"
            /\ RunOver(t) => Last(hist[t]).status = "error"

\* C10's case: a run is over in which ffmpeg failed and the fallback raised.
C10_Witness ==
    \E t \in Tasks : RunOver(t) /\ FfmpegFailed(t) /\ FallbackRaised(t)

(* C11: a _combine_chunks step on exactly one chunk path moves the file at *)
(* that path to the output path with its content unchanged, and the call   *)
(* invokes neither ffmpeg nor the moviepy fallback.                        *)
C11_SingleChunkIsRenamed ==
    [][\A t \in Tasks :
          (/\ task[t].pc = "combine"
           /\ Len(task[t].all_video_clips) = 1
           /\ task'[t] # task[t])
              => LET chunk == task[t].all_video_clips[1]
                     output_path == OutputPath(task[t].job_id)
                 IN  /\ Exists(disk, chunk)
                     /\ Exists(disk', output_path)
                     /\ disk'[output_path] = disk[chunk]
                     /\ ~Exists(disk', chunk)
                     /\ \A n \in 1..Len(calls'[t]) :
                            calls'[t][n] \notin {"ffmpeg", "moviepy"}]_vars

\* The run of task t has written a record with this progress (0 apart, which
\* the first record and the error record share).
Wrote(t, progress) ==
    \E n \in 1..Len(hist[t]) : hist[t][n].progress = progress

\* The run of task t has been through this call.
Called(t, event) == \E n \in 1..Len(calls[t]) : calls[t][n] = event

\* The positions of a task inside create_video.
CreateVideoPcs ==
    {"cv_loop", "audio", "tts", "clips", "probe", "rendering", "combine",
     "ffmpeg", "cleanup"}

(* C12 as stated: a run has written progress 30 only if its transcripts    *)
(* have been generated, 50 only if its slide images have been extracted,   *)
(* 70 only if it has entered rendering (images extracted), and 100 only if *)
(* create_video has returned.                                              *)
C12_MilestoneAfterStage ==
    \A t \in Tasks :
        /\ Wrote(t, 30) => Called(t, "generate_transcript")
        /\ Wrote(t, 50) => Called(t, "extract_slide_images")
        /\ Wrote(t, 70) => Called(t, "extract_slide_images")
        /\ Wrote(t, 100) => Called(t, "create_video")

(* C12 amended: each milestone is written on entry to its stage.  A run    *)
(* has written 30 only if its text has been extracted, 50 only if its      *)
(* transcripts have been generated, 70 only if its slide images have been  *)
(* extracted, 100 only if create_video has returned; and it generates      *)
(* transcripts only after writing 30, extracts images only after writing   *)
(* 50, and is inside create_video only after writing 70.                   *)
C12_MilestoneAtStageEntry ==
    \A t \in Tasks :
        /\ Wrote(t, 30) => Called(t, "extract_text")
        /\ Wrote(t, 50) => Called(t, "generate_transcript")
        /\ Wrote(t, 70) => Called(t, "extract_slide_images")
        /\ Wrote(t, 100) => Called(t, "create_video")
        /\ Called(t, "generate_transcript") => Wrote(t, 30)
        /\ (Called(t, "extract_slide_images")
              \/ Called(t, "extract_slide_images raised")) => Wrote(t, 50)
        /\ (task[t].pc \in CreateVideoPcs \/ Called(t, "create_video"))
              => Wrote(t, 70)

\* C12's case: one run waits for its transcripts with progress 30 on record,
\* another has gone through every stage to progress 100.
C12_Witness ==
    \E t, u \in Tasks :
        /\ task[t].pc = "transcribe"
        /\ Last(hist[t]).progress = 30
        /\ ~Called(t, "generate_transcript")
        /\ RunOver(u)
        /\ Wrote(u, 100)

RECURSIVE FlatImages(_)
\* The slide indexes of the chunk_images of `slices`, chunk after chunk.
FlatImages(slices) ==
    IF slices = <<>> THEN <<>>
    ELSE Head(slices).images \o FlatImages(Tail(slices))

RECURSIVE FlatTranscripts(_)
\* The slide indexes of the chunk_transcripts of `slices`, chunk after chunk.
FlatTranscripts(slices) ==
    IF slices = <<>> THEN <<>>
    ELSE Head(slices).transcripts \o FlatTranscripts(Tail(slices))

\* <<0, 1, ..., n-1>>
Iota(n) == [m \in 1..n |-> m - 1]

\* The chunk loop of create_video is over.
LoopOver(t) == task[t].pc \in {"combine", "ffmpeg", "cleanup"}

(* C13: in a create_video call on N >= 1 slides, the chunks cut so far,    *)
(* taken in index order, are non-empty and their images are the slides     *)
(* 0, 1, 2, ... in order with none missing or repeated, each chunk's       *)
(* transcripts are those of the same slide indexes, and once the loop is   *)
(* over the chunks cover all of 0..N-1.                                    *)
C13_ChunksPartitionSlides ==
    \A t \in Tasks :
        (task[t].pc \in CreateVideoPcs /\ Len(task[t].deck) >= 1) =>
            LET slices == task[t].slices
                images == FlatImages(slices)
            IN  /\ \A c \in 1..Len(slices) : slices[c].images # <<>>
                /\ images = Iota(Len(images))
                /\ \A c \in 1..Len(slices) :
                       slices[c].transcripts = slices[c].images
                /\ FlatTranscripts(slices) = images
                /\ Len(slices) = task[t].chunk_idx
                       + (IF task[t].pc \in {"audio", "tts", "clips", "probe",
                                              "rendering"} THEN 1 ELSE 0)
                /\ LoopOver(t) => Len(images) = Len(task[t].deck)

\* C13's case: a call on more than 15 slides has cut three chunks and its
\* loop is over, and a call on 6 slides has cut two.
C13_Witness ==
    \E t, u \in Tasks :
        /\ LoopOver(t) /\ Len(task[t].deck) > 15 /\ Len(task[t].slices) = 3
        /\ task[u].pc = "returned" /\ Len(task[u].deck) = 6

(* C14: the chunk size create_video gets from _calculate_optimal_chunk_size *)
(* for N slides is N when N <= 5, 5 when 5 < N <= 15, and 8 when N > 15.   *)
C14_ChunkSizePolicy ==
    \A t \in Tasks :
        LET N == Len(task[t].deck)
        IN  (\/ task[t].pc \in CreateVideoPcs
             \/ task[t].pc = "raised" /\ N = 0)
                => /\ N <= 5 => task[t].chunk_size = N
                   /\ (5 < N /\ N <= 15) => task[t].chunk_size = 5
                   /\ N > 15 => task[t].chunk_size = 8

\* C14's case: one call has been sized for more than 15 slides, after a call
\* on 6..15 slides.
C14_Witness ==
    \E t, u \in Tasks :
        /\ task[t].pc \in CreateVideoPcs
        /\ Len(task[t].deck) > 15 /\ task[t].chunk_size = 8
        /\ task[u].pc = "returned"
        /\ Len(task[u].deck) > 5 /\ Len(task[u].deck) <= 15

(* C15: planning has no error: a create_video call on zero slides does not *)
(* raise, cuts no chunk and invokes no concatenation, and the chunk size a *)
(* call works with is at least 1.                                          *)
C15_EmptyDeckPlansNothing ==
    \A t \in Tasks :
        /\ task[t].pc \in CreateVideoPcs => task[t].chunk_size >= 1
        /\ (task[t].mode = "call" /\ task[t].deck = <<>>)
              => /\ task[t].pc \in {"cv_loop", "combine", "cleanup", "returned"}
                 /\ task[t].slices = <<>>
                 /\ calls[t] \in {<<>>, <<"create_video">>}

\* The slide indexes among the first k slides of task t's current chunk whose
\* image exists, in order.
WithImage(t, k) ==
    SelectSeq([m \in 1..k |-> task[t].i + m - 1],
              LAMBDA x : task[t].deck[x + 1].img)

(* C16: while _process_chunk builds its clips, the clips made so far show  *)
(* exactly the slides gone through whose image exists, in order (a slide   *)
(* with a missing image has no clip); the clip of a slide with blank       *)
(* narration lasts 3 seconds and has no audio; and ffprobe is awaited only *)
(* for a slide that has narration.                                         *)
C16_BlankIsSilentMissingIsSkipped ==
    \A t \in Tasks :
        task[t].pc \in {"clips", "probe", "rendering"} =>
            LET clips == task[t].slide_clips
            IN  /\ [n \in 1..Len(clips) |-> clips[n].slide]
                       = WithImage(t, task[t].k)
                /\ \A n \in 1..Len(clips) :
                       ~task[t].deck[clips[n].slide + 1].text
                           => clips[n].dur = 3 /\ clips[n].aowner = 0
                /\ task[t].pc = "probe" => ChunkSlide(task[t], task[t].k).text
                /\ (\A n \in 1..Len(task[t].deck) : ~task[t].deck[n].text)
                       => ~Called(t, "ffprobe")

\* C16's case: a chunk of three slides, the first blank, the second without
\* image, the third narrated, is ready to render with two clips.
C16_Witness ==
    \E t \in Tasks :
        /\ task[t].pc = "rendering"
        /\ task[t].deck = <<Silent, NoImage, Spoken>>
        /\ Len(task[t].slide_clips) = 2
        /\ task[t].slide_clips[1].dur = DefaultDuration
        /\ Called(t, "ffprobe")

\* The outcomes of process_pptx's checks that are input validation failures.
ValidationFailures == {"too_large", "bad_type", "invalid"}

(* C17: a process_pptx request that fails validation (size, file name,     *)
(* PPTX content) is answered with its 4xx status in the same step, writes  *)
(* no job record, and its slot never runs a background task.               *)
C17_RejectedCreatesNoJob ==
    [][/\ \A t \in Tasks, deck \in PipelineDecks, outcome \in ValidationFailures :
              process_pptx(t, deck, outcome)
                  => /\ store' = store
                     /\ hist' = hist
                     /\ task'[t].pc = "rejected"
                     /\ task'[t].resp \in {413, 415, 400}
       /\ \A t \in Tasks :
              task[t].pc = "rejected"
                  => task'[t] = task[t] /\ hist'[t] = <<>> /\ calls'[t] = <<>>]_vars

\* C17's case: a request was rejected as invalid PPTX, then another accepted
\* and run to its end.
C17_Witness ==
    \E t, u \in Tasks :
        /\ task[t].pc = "rejected" /\ task[t].resp = 400
        /\ RunOver(u)
        /\ DOMAIN store = {task[u].job_id}

(* C18: a get_job_status request for an id that has no stored record is    *)
(* answered with the record of status "unknown", and does not raise.       *)
C18_UnknownIdIsUnknown ==
    [][\A job_id \in PollIds :
          (Polled(job_id) /\ job_id \notin DOMAIN store)
              => /\ reply'.result # ReadRaised
                 /\ reply'.result = [status |-> "unknown",
                                      message |-> "Job not found"]]_vars

\* C18's case: an id without a record was polled while another id has one.
C18_Witness ==
    /\ reply.op = "status"
    /\ reply.job_id \notin DOMAIN store
    /\ reply.result.status = "unknown"
    /\ store # <<>>

(* C19: every job whose background task has been scheduled eventually has  *)
(* its run over with a last record of status completed or error, provided  *)
(* the loop runs what is ready and every external call returns or raises.  *)
C19_EveryJobEnds ==
    \A t \in Tasks :
        (task[t].pc = "scheduled")
            ~> (RunOver(t) /\ Last(hist[t]).status \in {"completed", "error"})

\* C19's case: a two-chunk job ended completed through ffmpeg, and a job
\* whose concatenation failed on both paths ended in error.
C19_Witness ==
    \E t, u \in Tasks :
        /\ RunOver(t) /\ Called(t, "ffmpeg ok")
        /\ Last(hist[t]).status = "completed"
        /\ RunOver(u) /\ Called(u, "moviepy raised")
        /\ Last(hist[u]).status = "error"

(* C20: rendering is a suspension point: while a task is rendering a chunk *)
(* video it does not hold the event loop, so that other tasks and the      *)
(* status and download handlers can run before the render ends.            *)
C20_RenderSuspends ==
    \A t \in Tasks : task[t].pc = "rendering" => cpu # t

(* C21: a failed speech synthesis leaves the slide without audio and the   *)
(* audio loop goes on; a failed duration probe gives the slide's clip the  *)
(* default 3 seconds and the clip loop goes on; the clip of a slide        *)
(* without audio is silent and lasts 3 seconds; a chunk that renders is    *)
(* returned with all its slides that have an image; and a job's task       *)
(* enters its except branch only after a stage raised, never because of a  *)
(* slide's synthesis or probe.                                             *)
C21_SlideFailureIsAbsorbed ==
    [][\A t \in Tasks :
          LET tk == task[t]
              clips == tk.slide_clips
              clips2 == task'[t].slide_clips
          IN  /\ PcTts(t, FALSE)
                    => /\ task'[t].pc = "audio"
                       /\ task'[t].audio_files = Append(tk.audio_files, NoAudio)
              /\ PcProbe(t, 0)
                    => /\ task'[t].pc = "clips"
                       /\ Len(clips2) = Len(clips) + 1
                       /\ Last(clips2).slide = tk.i + tk.k
                       /\ Last(clips2).dur = 3
              /\ (/\ tk.pc = "clips" /\ task'[t].pc = "clips"
                  /\ Len(clips2) = Len(clips) + 1
                  /\ tk.audio_files[tk.k + 1] = NoAudio)
                    => Last(clips2).dur = 3 /\ Last(clips2).aowner = 0
              /\ PcRendered(t, TRUE)
                    => /\ Exists(disk', ChunkPath(tk.chunk_idx))
                       /\ Len(task'[t].all_video_clips)
                              = Len(tk.all_video_clips) + 1
                       /\ Last(task'[t].all_video_clips) = ChunkPath(tk.chunk_idx)
                       /\ [n \in 1..Len(clips) |-> clips[n].slide]
                              = WithImage(t, ChunkLen(tk))
                       /\ disk'[ChunkPath(tk.chunk_idx)].clips = clips
              /\ (tk.pc # "except" /\ task'[t].pc = "except")
                    => \E n \in 1..Len(calls'[t]) : calls'[t][n] \in RaiseEvents]_vars

\* C21's case: a job whose synthesis failed ended completed, and so did a
\* job whose probe failed, its video showing the slide for 3 seconds with
\* its audio.
C21_Witness ==
    \E t, u \in Tasks :
        /\ RunOver(t) /\ Last(hist[t]).status = "completed"
        /\ Called(t, "tts") /\ ~Called(t, "ffprobe")
        /\ RunOver(u) /\ Last(hist[u]).status = "completed"
        /\ Exists(disk, OutputPath(task[u].job_id))
        /\ LET video == disk[OutputPath(task[u].job_id)]
           IN  /\ video.owner = u
               /\ Len(video.clips) = 1
               /\ video.clips[1].dur = 3
               /\ video.clips[1].aowner = u

(* C22: when _process_chunk ends a chunk with no clip at all, it raises     *)
(* nothing and writes no file, create_video adds no path to the list it    *)
(* will concatenate, and goes on with the next chunk index.                *)
C22_EmptyChunkContributesNothing ==
    [][\A t \in Tasks :
          LET tk == task[t]
          IN  (/\ tk.pc = "clips"
               /\ tk.k >= Min(ChunkLen(tk), Len(tk.audio_files))
               /\ tk.slide_clips = <<>>
               /\ task'[t] # tk)
                  => /\ task'[t].pc = "cv_loop"
                     /\ task'[t].chunk_idx = tk.chunk_idx + 1
                     /\ task'[t].i = tk.i + tk.chunk_size
                     /\ task'[t].all_video_clips = tk.all_video_clips
                     /\ disk' = disk]_vars

(* C23: when a run writes a record of status completed, the file at the    *)
(* record's video_path exists on disk.                                     *)
C23_CompletedHasVideo ==
    [][\A t \in Tasks :
          (/\ task[t].pc = "dump"
           /\ task[t].writing.status = "completed"
           /\ task'[t].pc # "dump")
              => Exists(disk', task[t].writing.video_path)]_vars

\* How many times the run of task t has invoked _combine_with_moviepy.
FallbackCalls(t) == Len(SelectSeq(calls[t], LAMBDA e : e = "moviepy"))

(* C24: a run, which calls _combine_chunks once, invokes the moviepy       *)
(* fallback at most once, however ffmpeg and the fallback end.             *)
C24_FallbackAtMostOnce ==
    \A t \in Tasks : FallbackCalls(t) <= 1

(* C25: once a request is answered with a rejection or a failure, or the   *)
(* background task of an accepted one is over, the temporary copy of the   *)
(* upload that process_pptx made is no longer on disk.                     *)
C25_UploadCopyDeleted ==
    \A t \in Tasks :
        task[t].pc \in {"rejected", "done"} => ~task[t].tmp_path

====
